---- MODULE Spec2Model ----
(***************************************************************************)
(* Model of the asynchronous image-processing pipeline and its status      *)
(* state machine: app/tasks/worker.py (the batch driver and the webhook),  *)
(* app/services/image_service.py (per-product processing and the status    *)
(* aggregation), app/services/csv_service.py (ingestion) and the upload    *)
(* path of app/api/endpoints.py.                                           *)
(*                                                                         *)
(* A "request" is a batch, a "product" is an item, an input image URL is a *)
(* reference.  Every db.commit() of the code is one step of the model, so  *)
(* every state of the model is a committed state a status query can read.  *)
(***************************************************************************)
EXTENDS Integers, Sequences, FiniteSets, TLC

\* ------------------------------------------------------------------ bounds
MaxRequests == 1       \* uploaded manifests
MaxProducts == 2       \* rows of one manifest (0 rows: a header-only file)
MaxUrls == 2           \* image URLs of one row (at least 1)
MaxTasks == 2          \* process_images_task invocations, over all requests
MaxAggregations == 2   \* calls in a row of update_request_status on its own

RequestIds == 1..MaxRequests
TaskIds == 1..MaxTasks

\* ------------------------------------------------------- ProcessingStatus
PENDING == "pending"
PROCESSING == "processing"
COMPLETED == "completed"
FAILED == "failed"
ProcessingStatus == {PENDING, PROCESSING, COMPLETED, FAILED}

\* config.WEBHOOK_URL: the environment's value, or "" when it is not set
NoUrl == ""
WebhookUrlChoices == {NoUrl, "http://default-hook"}
\* the webhook_url form field of an upload: absent, or an http(s) URL
FormUrlChoices == {NoUrl, "http://request-hook"}

\* a product's output_image_urls column before anything is stored: NULL,
\* which Product.get_output_urls reads as []
NoOutput == <<>>
\* the failed-image placeholder "" of process_product_images: the empty
\* string, where a generated URL is a non-empty one
Placeholder == <<>>

VARIABLES
    WEBHOOK_URL,   \* config.WEBHOOK_URL, fixed for the life of the process
    requests,      \* requests table: request id -> row, or NoRequest
    products,      \* products table: request id -> the rows, in insertion order
    upload,        \* upload_csv's position for each request id
    pc,            \* each task's position in _process_images
    request_id,    \* each task's argument
    found_status,  \* the request's status when the task was invoked
    k,             \* each task's index in `for product in products`
    output_urls,   \* each task's local output_urls list
    outcomes,      \* what download/compress/write did for each URL of the product in hand
    result,        \* each task's return value
    posted,        \* per request, the webhook POSTs made so far, in order
    response,      \* how the task's webhook POST was answered
    aggregations   \* per request, the rows seen by update_request_status called
                   \* on its own: the row before the first call, then the
                   \* row each call committed

vars == <<WEBHOOK_URL, requests, products, upload, pc, request_id,
          found_status, k,
          output_urls, outcomes, result, posted, response, aggregations>>

\* a request id db.query(Request).filter(Request.id == id).first() finds no row for
NoRequest == [exists |-> FALSE, status |-> PENDING, total_products |-> 0,
              processed_products |-> 0, webhook_triggered |-> 0,
              webhook_url |-> NoUrl]
NoResult == [status |-> "none", request_id |-> 0]

\* ------------------------------------------------------------ db helpers
\* Product.get_input_urls / get_output_urls: the JSON column read back as a list
get_input_urls(p) == p.input_image_urls
get_output_urls(p) == p.output_image_urls

Finished == {COMPLETED, FAILED}

\* the count without the request_id filter: over the whole products table
CountStatus_AllRequests(rows, s) ==
    Cardinality({x \in UNION {{<<b, i>> : i \in 1..Len(products[b])} :
                                b \in DOMAIN products} :
                    products[x[1]][x[2]].status = s})

\* db.query(Product).filter(request_id == r, status == s).count()
CountStatus(rows, s) == Cardinality({i \in 1..Len(rows) : rows[i].status = s})

\* uuid.uuid4(): a name no other call returns; the call is identified by the
\* task, the product and the URL position it is made for
uuid4(t, i, j) == <<t, i, j>>

\* process_image with the compression's failure not looked at
process_image_IgnoresCompressFailure(fetched, compressed, name) ==
    IF ~fetched THEN Placeholder ELSE name

\* process_image's return value, from what each stage did
process_image(fetched, compressed, name) ==
    IF ~fetched THEN Placeholder
    ELSE IF ~compressed THEN Placeholder
    ELSE name

\* ------------------------------------------------------------- ingestion
\* the manifests validate_csv_format accepts: 0..MaxProducts rows, each with
\* at least one URL
Manifests == UNION {[1..n -> 1..MaxUrls] : n \in 0..MaxProducts}

\* the Product row process_csv_file adds for a manifest row with m URLs
NewProduct(m) ==
    [status |-> PENDING,
     input_image_urls |-> [j \in 1..m |-> j],
     output_image_urls |-> NoOutput]

\* process_csv_file, called by upload_csv: the Request row and one Product
\* row per manifest row, committed together
process_csv_file(b, manifest, url) ==
    /\ upload[b] = "none"
    /\ \A a \in RequestIds : a < b => upload[a] # "none"
    /\ requests' = [requests EXCEPT ![b] =
            [exists |-> TRUE, status |-> PENDING,
             total_products |-> Len(manifest), processed_products |-> 0,
             webhook_triggered |-> 0, webhook_url |-> url]]
    /\ products' = [products EXCEPT ![b] =
            [i \in 1..Len(manifest) |-> NewProduct(manifest[i])]]
    /\ upload' = [upload EXCEPT ![b] = "send_task"]
    /\ UNCHANGED <<WEBHOOK_URL, pc, request_id, found_status, k,
                   output_urls, outcomes, result, posted, response,
                   aggregations>>

\* upload_csv: celery_app.send_task succeeded, the task is queued
send_task(b) ==
    /\ upload[b] = "send_task"
    /\ upload' = [upload EXCEPT ![b] = "queued"]
    /\ UNCHANGED <<WEBHOOK_URL, requests, products, pc, request_id,
                   found_status, k, output_urls, outcomes, result,
                   posted, response, aggregations>>

\* upload_csv: celery_app.send_task raised; the request is marked failed and
\* the upload answers 503
send_task_failed(b) ==
    /\ upload[b] = "send_task"
    /\ requests' = [requests EXCEPT ![b].status = FAILED]
    /\ upload' = [upload EXCEPT ![b] = "unavailable"]
    /\ UNCHANGED <<WEBHOOK_URL, products, pc, request_id, found_status, k,
                   output_urls, outcomes, result, posted, response,
                   aggregations>>

\* --------------------------------------------------------------- driver
Active(t) == pc[t] \notin {"idle", "done"}

\* no invocation of the task is running on request b
NoActiveTask(b) == \A t \in TaskIds : Active(t) => request_id[t] # b

\* process_images_task(request_id): a worker picks the queued task up, or is
\* handed it again (a redelivery, a later re-trigger)
process_images_task(t, b) ==
    /\ pc[t] = "idle"
    /\ \A u \in TaskIds : u < t => pc[u] # "idle"
    /\ upload[b] = "queued"
    /\ pc' = [pc EXCEPT ![t] = "load"]
    /\ request_id' = [request_id EXCEPT ![t] = b]
    /\ found_status' = [found_status EXCEPT ![t] = requests[b].status]
    /\ UNCHANGED <<WEBHOOK_URL, requests, products, upload, k,
                   output_urls, outcomes, result, posted, response,
                   aggregations>>

\* _process_images, up to the loop: the products are loaded and the request
\* is set to processing whatever its status was
mark_processing(t) ==
    /\ pc[t] = "load"
    /\ LET b == request_id[t] IN
        /\ requests' = [requests EXCEPT ![b].status = PROCESSING]
        /\ pc' = [pc EXCEPT ![t] =
                IF Len(products[b]) = 0 THEN "webhook" ELSE "product"]
        /\ k' = [k EXCEPT ![t] = 1]
    /\ UNCHANGED <<WEBHOOK_URL, products, upload, request_id,
                   found_status, output_urls, outcomes, result, posted,
                   response, aggregations>>

\* process_product_images, up to its try: the product is set to processing
\* whatever its status was
start_product(t) ==
    /\ pc[t] = "product"
    /\ LET b == request_id[t] IN
        products' = [products EXCEPT ![b][k[t]].status = PROCESSING]
    /\ output_urls' = [output_urls EXCEPT ![t] = <<>>]
    /\ outcomes' = [outcomes EXCEPT ![t] = <<>>]
    /\ pc' = [pc EXCEPT ![t] = "images"]
    /\ UNCHANGED <<WEBHOOK_URL, requests, upload, request_id,
                   found_status, k, result, posted, response,
                   aggregations>>

\* what can happen to one URL: the download fails, the compression fails,
\* writing the compressed file raises, or all three succeed
ImageOutcomes == {"ok", "download_failed", "compress_failed", "write_failed"}

\* one turn of `for url in input_urls`: process_image(url) and the append
process_next_image(t, o) ==
    /\ pc[t] = "images"
    /\ LET b == request_id[t]
           inputs == get_input_urls(products[b][k[t]])
           j == Len(output_urls[t]) + 1
       IN
        /\ outcomes' = [outcomes EXCEPT ![t] = Append(@, o)]
        /\ IF o = "write_failed"
           THEN /\ pc' = [pc EXCEPT ![t] = "product_except"]
                /\ UNCHANGED output_urls
           ELSE /\ output_urls' = [output_urls EXCEPT ![t] = Append(@,
                        process_image(o # "download_failed",
                                      o # "compress_failed",
                                      uuid4(t, k[t], j)))]
                /\ pc' = [pc EXCEPT ![t] =
                        IF j = Len(inputs) THEN "save" ELSE "images"]
    /\ UNCHANGED <<WEBHOOK_URL, requests, products, upload, request_id,
                   found_status, k, result, posted, response,
                   aggregations>>

\* the final commit of a product also counting it on the request row
save_product_CountsItself(t) ==
    /\ pc[t] = "save"
    /\ LET b == request_id[t] IN
        /\ products' = [products EXCEPT
                ![b][k[t]].output_image_urls = output_urls[t],
                ![b][k[t]].status = COMPLETED]
        /\ requests' = [requests EXCEPT ![b].processed_products = @ + 1]
    /\ pc' = [pc EXCEPT ![t] = "aggregate"]
    /\ UNCHANGED <<WEBHOOK_URL, upload, request_id,
                   found_status, k, output_urls, outcomes, result,
                   posted, response, aggregations>>

\* process_product_images after the loop: the outputs and the completed
\* status, in one commit
save_product(t) ==
    /\ pc[t] = "save"
    /\ LET b == request_id[t] IN
        products' = [products EXCEPT
            ![b][k[t]].output_image_urls = output_urls[t],
            ![b][k[t]].status = COMPLETED]
    /\ pc' = [pc EXCEPT ![t] = "aggregate"]
    /\ UNCHANGED <<WEBHOOK_URL, requests, upload, request_id,
                   found_status, k, output_urls, outcomes, result,
                   posted, response, aggregations>>

\* the except clause re-raising after it marked the product failed
fail_product_Propagates(t) ==
    /\ pc[t] = "product_except"
    /\ LET b == request_id[t] IN
        products' = [products EXCEPT ![b][k[t]].status = FAILED]
    /\ pc' = [pc EXCEPT ![t] = "except"]
    /\ UNCHANGED <<WEBHOOK_URL, requests, upload, request_id,
                   found_status, k, output_urls, outcomes, result,
                   posted, response, aggregations>>

\* process_product_images' except clause: the product is set to failed; the
\* outputs gathered so far are dropped with the local list
fail_product(t) ==
    /\ pc[t] = "product_except"
    /\ LET b == request_id[t] IN
        products' = [products EXCEPT ![b][k[t]].status = FAILED]
    /\ pc' = [pc EXCEPT ![t] = "aggregate"]
    /\ UNCHANGED <<WEBHOOK_URL, requests, upload, request_id,
                   found_status, k, output_urls, outcomes, result,
                   posted, response, aggregations>>

\* the rule with any failed product failing the request
AggregateStatus_AnyFailureFails(total, completed, failed, old) ==
    IF completed + failed = total
    THEN IF failed > 0 THEN FAILED ELSE COMPLETED
    ELSE IF completed + failed > 0 THEN PROCESSING
    ELSE old

\* the rule without its failed branch
AggregateStatus_NeverFails(total, completed, failed, old) ==
    IF completed + failed = total THEN COMPLETED
    ELSE IF completed + failed > 0 THEN PROCESSING
    ELSE old

\* update_request_status: the status it leaves in the request
\* (old when it assigns none)
AggregateStatus(total, completed, failed, old) ==
    IF completed + failed = total
    THEN IF failed > 0 /\ completed = 0 THEN FAILED ELSE COMPLETED
    ELSE IF completed + failed > 0 THEN PROCESSING
    ELSE old

\* the row with processed_products counting the completed products only
Aggregated_CountsCompletedOnly(req, rows) ==
    LET total == Len(rows)
        completed == CountStatus(rows, COMPLETED)
        failed == CountStatus(rows, FAILED)
    IN [req EXCEPT
            !.processed_products = completed,
            !.status = AggregateStatus(total, completed, failed, req.status)]

\* the row with processed_products counted up by one at each call
Aggregated_Increments(req, rows) ==
    LET total == Len(rows)
        completed == CountStatus(rows, COMPLETED)
        failed == CountStatus(rows, FAILED)
    IN [req EXCEPT
            !.processed_products = req.processed_products + 1,
            !.status = AggregateStatus(total, completed, failed, req.status)]

\* update_request_status: the request row it commits
Aggregated(req, rows) ==
    LET total == Len(rows)
        completed == CountStatus(rows, COMPLETED)
        failed == CountStatus(rows, FAILED)
    IN [req EXCEPT
            !.processed_products = completed + failed,
            !.status = AggregateStatus(total, completed, failed, req.status)]

\* update_request_status(request_id, db), called after each product; then
\* the loop's next turn or its end
update_request_status(t) ==
    /\ pc[t] = "aggregate"
    /\ LET b == request_id[t] IN
        /\ requests' = [requests EXCEPT ![b] = Aggregated(@, products[b])]
        /\ IF k[t] < Len(products[b])
           THEN /\ k' = [k EXCEPT ![t] = @ + 1]
                /\ pc' = [pc EXCEPT ![t] = "product"]
           ELSE /\ UNCHANGED k
                /\ pc' = [pc EXCEPT ![t] = "webhook"]
    /\ output_urls' = [output_urls EXCEPT ![t] = <<>>]
    /\ outcomes' = [outcomes EXCEPT ![t] = <<>>]
    /\ UNCHANGED <<WEBHOOK_URL, products, upload, request_id,
                   found_status, result, posted, response,
                   aggregations>>

\* ------------------------------------------------------------- webhook
\* trigger_webhook_if_needed: `request.webhook_url or WEBHOOK_URL`
EffectiveUrl(req, default) ==
    IF req.webhook_url # NoUrl THEN req.webhook_url ELSE default

\* the early returns without the status test
WebhookNeeded_IgnoresStatus(req, default) ==
    /\ req.exists
    /\ req.webhook_triggered = 0
    /\ EffectiveUrl(req, default) # NoUrl

\* the early returns without the webhook_triggered test
WebhookNeeded_IgnoresTriggered(req, default) ==
    /\ req.exists
    /\ req.status = COMPLETED
    /\ EffectiveUrl(req, default) # NoUrl

\* trigger_webhook_if_needed: the two early returns passed
WebhookNeeded(req, default) ==
    /\ req.exists
    /\ req.webhook_triggered = 0
    /\ req.status = COMPLETED
    /\ EffectiveUrl(req, default) # NoUrl

\* trigger_webhook_if_needed: the payload (the percentage as a whole number)
WebhookPayload(t, b, req) ==
    [task |-> t,
     request_id |-> b,
     status |-> req.status,
     total_products |-> req.total_products,
     processed_products |-> req.processed_products,
     completion_percentage |->
        IF req.total_products > 0
        THEN (req.processed_products * 100) \div req.total_products
        ELSE 0]

Success(b) == [status |-> "success", request_id |-> b]
\* the except clause's return value with the success status
Error_AsSuccess(b) == [status |-> "success", request_id |-> b]
Error(b) == [status |-> "error", request_id |-> b]

\* trigger_webhook_if_needed returns early: nothing to send; the task
\* returns success
webhook_not_needed(t) ==
    /\ pc[t] = "webhook"
    /\ LET b == request_id[t] IN
        /\ ~WebhookNeeded(requests[b], WEBHOOK_URL)
        /\ result' = [result EXCEPT ![t] = Success(b)]
    /\ pc' = [pc EXCEPT ![t] = "done"]
    /\ UNCHANGED <<WEBHOOK_URL, requests, products, upload, request_id,
                   found_status, k, output_urls, outcomes, posted,
                   response, aggregations>>

\* trigger_webhook_if_needed builds the payload and POSTs it
webhook_post(t) ==
    /\ pc[t] = "webhook"
    /\ LET b == request_id[t] IN
        /\ WebhookNeeded(requests[b], WEBHOOK_URL)
        /\ posted' = [posted EXCEPT ![b] =
                Append(@, WebhookPayload(t, b, requests[b]))]
    /\ pc' = [pc EXCEPT ![t] = "posting"]
    /\ UNCHANGED <<WEBHOOK_URL, requests, products, upload, request_id,
                   found_status, k, output_urls, outcomes, result,
                   response, aggregations>>

\* the POST answered 2xx: webhook_triggered is set and committed; the task
\* returns success
webhook_delivered(t) ==
    /\ pc[t] = "posting"
    /\ LET b == request_id[t] IN
        /\ requests' = [requests EXCEPT ![b].webhook_triggered = 1]
        /\ result' = [result EXCEPT ![t] = Success(b)]
    /\ pc' = [pc EXCEPT ![t] = "done"]
    /\ response' = [response EXCEPT ![t] = "2xx"]
    /\ UNCHANGED <<WEBHOOK_URL, products, upload, request_id,
                   found_status, k, output_urls, outcomes, posted,
                   aggregations>>

\* the POST's failure re-raised to _process_images
webhook_failed_Propagates(t) ==
    /\ pc[t] = "posting"
    /\ pc' = [pc EXCEPT ![t] = "except"]
    /\ response' = [response EXCEPT ![t] = "failed"]
    /\ UNCHANGED <<WEBHOOK_URL, requests, products, upload, request_id,
                   found_status, k, output_urls, outcomes, result, posted,
                   aggregations>>

\* the POST timed out, could not connect or answered non-2xx: logged only;
\* the task returns success
webhook_failed(t) ==
    /\ pc[t] = "posting"
    /\ result' = [result EXCEPT ![t] = Success(request_id[t])]
    /\ pc' = [pc EXCEPT ![t] = "done"]
    /\ response' = [response EXCEPT ![t] = "failed"]
    /\ UNCHANGED <<WEBHOOK_URL, requests, products, upload, request_id,
                   found_status, k, output_urls, outcomes, posted,
                   aggregations>>

\* ---------------------------------------------------------- driver fault
\* the database calls of _process_images that no inner try covers: its own
\* queries and commit, process_product_images' first query and commit and
\* the commit of its except clause, update_request_status,
\* trigger_webhook_if_needed's query
FaultPoints == {"load", "product", "product_except", "aggregate", "webhook"}

\* one of them raises: the call commits nothing and control goes to
\* _process_images' except clause
driver_fault(t) ==
    /\ pc[t] \in FaultPoints
    /\ pc' = [pc EXCEPT ![t] = "except"]
    /\ UNCHANGED <<WEBHOOK_URL, requests, products, upload, request_id,
                   found_status, k, output_urls, outcomes, result,
                   posted, response, aggregations>>

\* the except clause also setting every unfinished product to failed
handle_fault_SweepsProducts(t) ==
    /\ pc[t] = "except"
    /\ LET b == request_id[t] IN
        /\ requests' = [requests EXCEPT ![b].status = FAILED]
        /\ products' = [products EXCEPT ![b] =
                [i \in 1..Len(@) |->
                    IF @[i].status \in Finished THEN @[i]
                    ELSE [@[i] EXCEPT !.status = FAILED]]]
        /\ result' = [result EXCEPT ![t] = Error(b)]
    /\ pc' = [pc EXCEPT ![t] = "done"]
    /\ output_urls' = [output_urls EXCEPT ![t] = <<>>]
    /\ outcomes' = [outcomes EXCEPT ![t] = <<>>]
    /\ UNCHANGED <<WEBHOOK_URL, upload, request_id,
                   found_status, k, posted, response, aggregations>>

\* the except clause returning the error without writing the status
handle_fault_KeepsStatus(t) ==
    /\ pc[t] = "except"
    /\ LET b == request_id[t] IN
        /\ requests' = requests
        /\ result' = [result EXCEPT ![t] = Error(b)]
    /\ pc' = [pc EXCEPT ![t] = "done"]
    /\ output_urls' = [output_urls EXCEPT ![t] = <<>>]
    /\ outcomes' = [outcomes EXCEPT ![t] = <<>>]
    /\ UNCHANGED <<WEBHOOK_URL, products, upload, request_id,
                   found_status, k, posted, response, aggregations>>

\* _process_images' except clause: the request is set to failed and the
\* task returns an error
handle_fault(t) ==
    /\ pc[t] = "except"
    /\ LET b == request_id[t] IN
        /\ requests' = [requests EXCEPT ![b].status = FAILED]
        /\ result' = [result EXCEPT ![t] = Error(b)]
    /\ pc' = [pc EXCEPT ![t] = "done"]
    /\ output_urls' = [output_urls EXCEPT ![t] = <<>>]
    /\ outcomes' = [outcomes EXCEPT ![t] = <<>>]
    /\ UNCHANGED <<WEBHOOK_URL, products, upload, request_id,
                   found_status, k, posted, response, aggregations>>

\* ------------------------------------------------------- specification
Init ==
    /\ WEBHOOK_URL \in WebhookUrlChoices
    /\ requests = [b \in RequestIds |-> NoRequest]
    /\ products = [b \in RequestIds |-> <<>>]
    /\ upload = [b \in RequestIds |-> "none"]
    /\ pc = [t \in TaskIds |-> "idle"]
    /\ request_id = [t \in TaskIds |-> 0]
    /\ found_status = [t \in TaskIds |-> "none"]
    /\ k = [t \in TaskIds |-> 0]
    /\ output_urls = [t \in TaskIds |-> <<>>]
    /\ outcomes = [t \in TaskIds |-> <<>>]
    /\ result = [t \in TaskIds |-> NoResult]
    /\ posted = [b \in RequestIds |-> <<>>]
    /\ response = [t \in TaskIds |-> "none"]
    /\ aggregations = [b \in RequestIds |-> <<>>]

\* one step of a running task
TaskStep(t) ==
    \/ mark_processing(t)
    \/ start_product(t)
    \/ \E o \in ImageOutcomes : process_next_image(t, o)
    \/ save_product(t)
    \/ fail_product(t)
    \/ update_request_status(t)
    \/ webhook_not_needed(t)
    \/ webhook_post(t)
    \/ webhook_delivered(t)
    \/ webhook_failed(t)
    \/ driver_fault(t)
    \/ handle_fault(t)

\* the upload path
Upload ==
    \/ \E b \in RequestIds, m \in Manifests, u \in FormUrlChoices :
            process_csv_file(b, m, u)
    \/ \E b \in RequestIds : send_task(b)
    \/ \E b \in RequestIds : send_task_failed(b)

\* invocations of the task on one request follow one another; tasks on
\* different requests run concurrently
Next ==
    \/ Upload
    \/ \E t \in TaskIds, b \in RequestIds :
            NoActiveTask(b) /\ process_images_task(t, b)
    \/ \E t \in TaskIds : TaskStep(t)

Spec == Init /\ [][Next]_vars

\* ------------------------------------------- the aggregation on its own
\* update_request_status(request_id, db) called outside the driver's loop,
\* on whatever the two tables hold
recompute_status(b) ==
    /\ requests[b].exists
    /\ Len(aggregations[b]) < MaxAggregations + 1
    /\ requests' = [requests EXCEPT ![b] = Aggregated(@, products[b])]
    /\ aggregations' = [aggregations EXCEPT ![b] =
            Append(IF @ = <<>> THEN <<requests[b]>> ELSE @,
                   Aggregated(requests[b], products[b]))]
    /\ UNCHANGED <<WEBHOOK_URL, products, upload, pc, request_id,
                   found_status, k, output_urls, outcomes, result, posted,
                   response>>

\* no call of update_request_status on its own has been made
NoAggregation == \A b \in RequestIds : aggregations[b] = <<>>

\* the program runs; at any committed state it reaches, calls in a row of
\* update_request_status on its own begin, with nothing else written
\* between them
AggNext ==
    \/ NoAggregation /\ Next
    \/ \E b \in RequestIds : recompute_status(b)

\* the aggregation step applied again and again to the tables as the
\* program left them
AggSpec == Init /\ [][AggNext]_vars

\* --------------------------------------------- two requests side by side
\* two request ids, each processed by the task of the same number
PairIds == {1, 2}

\* the manifests of concurrent runs: up to MaxProducts rows of one URL each
\* (between two commits of a run the image steps touch no row, so one URL
\* is enough to interleave the commits in every way)
OneUrlManifests == UNION {[1..n -> {1}] : n \in 0..MaxProducts}

\* upload_csv has answered for both: each request has its Request row, its
\* Product rows and its queued task, and no task has started
PairInit ==
    /\ WEBHOOK_URL \in WebhookUrlChoices
    /\ \E ms \in [PairIds -> OneUrlManifests], us \in [PairIds -> FormUrlChoices] :
        /\ requests = [b \in PairIds |->
                [exists |-> TRUE, status |-> PENDING,
                 total_products |-> Len(ms[b]), processed_products |-> 0,
                 webhook_triggered |-> 0, webhook_url |-> us[b]]]
        /\ products = [b \in PairIds |->
                [i \in 1..Len(ms[b]) |-> NewProduct(ms[b][i])]]
    /\ upload = [b \in PairIds |-> "queued"]
    /\ pc = [t \in TaskIds |-> "idle"]
    /\ request_id = [t \in TaskIds |-> 0]
    /\ found_status = [t \in TaskIds |-> "none"]
    /\ k = [t \in TaskIds |-> 0]
    /\ output_urls = [t \in TaskIds |-> <<>>]
    /\ outcomes = [t \in TaskIds |-> <<>>]
    /\ result = [t \in TaskIds |-> NoResult]
    /\ posted = [b \in PairIds |-> <<>>]
    /\ response = [t \in TaskIds |-> "none"]
    /\ aggregations = [b \in PairIds |-> <<>>]

\* the two workers: each picks its task up at any moment and the steps of
\* the two runs interleave freely
PairNext ==
    \/ \E t \in TaskIds : t \in PairIds /\ process_images_task(t, t)
    \/ \E t \in TaskIds : TaskStep(t)

\* one run on each of two requests, concurrently
PairSpec == PairInit /\ [][PairNext]_vars

\* ------------------------------------------- one request, two workers
\* upload_csv has answered: every request has its rows and its queued
\* task, and no task has started
RedeliveryInit ==
    /\ WEBHOOK_URL \in WebhookUrlChoices
    /\ \E ms \in [RequestIds -> OneUrlManifests],
         us \in [RequestIds -> FormUrlChoices] :
        /\ requests = [b \in RequestIds |->
                [exists |-> TRUE, status |-> PENDING,
                 total_products |-> Len(ms[b]), processed_products |-> 0,
                 webhook_triggered |-> 0, webhook_url |-> us[b]]]
        /\ products = [b \in RequestIds |->
                [i \in 1..Len(ms[b]) |-> NewProduct(ms[b][i])]]
    /\ upload = [b \in RequestIds |-> "queued"]
    /\ pc = [t \in TaskIds |-> "idle"]
    /\ request_id = [t \in TaskIds |-> 0]
    /\ found_status = [t \in TaskIds |-> "none"]
    /\ k = [t \in TaskIds |-> 0]
    /\ output_urls = [t \in TaskIds |-> <<>>]
    /\ outcomes = [t \in TaskIds |-> <<>>]
    /\ result = [t \in TaskIds |-> NoResult]
    /\ posted = [b \in RequestIds |-> <<>>]
    /\ response = [t \in TaskIds |-> "none"]
    /\ aggregations = [b \in RequestIds |-> <<>>]

\* the broker hands the task of a request to a worker again while an
\* earlier delivery may still be running: nothing in process_images_task
\* looks for another run on the request
RedeliveryNext ==
    \/ \E t \in TaskIds, b \in RequestIds : process_images_task(t, b)
    \/ \E t \in TaskIds : TaskStep(t)

\* invocations of the task on one request, concurrently
RedeliverySpec == RedeliveryInit /\ [][RedeliveryNext]_vars

\* ---------------------------------------------------- the result manifest
\* ','.join(urls) as the row holds it: the entries a reader gets back by
\* splitting at the commas. The join of no URL is the empty string, which
\* reads as one empty entry, like the join of one placeholder
JoinedEntries(urls) == IF urls = <<>> THEN <<Placeholder>> ELSE urls

\* generate_output_csv's row for one product: the input entries and the
\* output entries, as written after the serial number and the name
CsvRow(p) ==
    [input |-> JoinedEntries(get_input_urls(p)),
     output |-> JoinedEntries(get_output_urls(p))]

\* generate_output_csv(request_id, db): no file unless the request is
\* completed; else one row per product, in order
generate_output_csv(req, rows) ==
    IF ~req.exists \/ req.status # COMPLETED
    THEN [generated |-> FALSE, rows |-> <<>>]
    ELSE [generated |-> TRUE,
          rows |-> [i \in 1..Len(rows) |-> CsvRow(rows[i])]]

\* ------------------------------------------------------------ properties
ProductIds(b) == 1..Len(products[b])
Product(b, i) == products[b][i]
FinishedCount(b) ==
    CountStatus(products[b], COMPLETED) + CountStatus(products[b], FAILED)

\* the position of the input URL a generated name was made for
UrlPosition(u) == u[3]

\* the task has returned
Returned(t) == pc[t] = "done"
\* the task has left the product loop by its end and has not returned
PastLoop(t) == pc[t] \in {"webhook", "posting"}
\* the POSTs task t made for request b
PostsBy(t, b) == {n \in 1..Len(posted[b]) : posted[b][n].task = t}

\* C1: over any sequence of task invocations on a request, webhook_triggered
\* never goes back from 1 to 0 (so it goes from 0 to 1 at most once), it
\* goes from 0 to 1 only while the request's status is completed, and once
\* it is 1 no further webhook is POSTed for the request.
C1_NotifiedAtMostOnce ==
    [][\A b \in RequestIds :
        /\ requests[b].webhook_triggered = 1
            => /\ requests'[b].webhook_triggered = 1
               /\ posted'[b] = posted[b]
        /\ (requests[b].webhook_triggered = 0
                /\ requests'[b].webhook_triggered = 1)
            => /\ requests[b].status = COMPLETED
               /\ requests'[b].status = COMPLETED]_vars

\* C1 witness: a task re-invoked on an already notified request has returned
\* and the request still has its single POST.
C1_Witness ==
    \E b \in RequestIds : \E t, u \in TaskIds :
        /\ t < u /\ request_id[t] = b /\ request_id[u] = b
        /\ Returned(t) /\ Returned(u)
        /\ result[u].status = "success"
        /\ PostsBy(t, b) # {} /\ PostsBy(u, b) = {}
        /\ requests[b].webhook_triggered = 1
        /\ requests[b].status = COMPLETED
        /\ Len(posted[b]) = 1

\* C2: every product whose status is completed or failed has as many output
\* URLs as input URLs, and its output at position j was made for its input
\* at position j.
C2_OutputsAlignWithInputs ==
    \A b \in RequestIds : \A i \in ProductIds(b) :
        Product(b, i).status \in Finished
            => /\ Len(get_output_urls(Product(b, i)))
                    = Len(get_input_urls(Product(b, i)))
               /\ \A j \in 1..Len(get_output_urls(Product(b, i))) :
                    get_output_urls(Product(b, i))[j] # Placeholder
                        => UrlPosition(get_output_urls(Product(b, i))[j]) = j

\* the image failures process_image recovers from
RecoveredFailures == {"download_failed", "compress_failed"}

\* C3: a download or compression failure of single URLs never fails the
\* product: when every URL of a product went through download and
\* compression, whatever the failures (all of them included), the product is
\* completed, its output at position j is the placeholder exactly when the
\* download or the compression of input j failed and the generated URL
\* otherwise; and a request whose only product has one URL, which failed,
\* is completed once the loop is over.
C3_ImageFailureIsolated ==
    /\ \A t \in TaskIds :
        (/\ pc[t] = "aggregate"
         /\ \A j \in 1..Len(outcomes[t]) : outcomes[t][j] # "write_failed")
        => LET p == Product(request_id[t], k[t]) IN
            /\ p.status = COMPLETED
            /\ Len(outcomes[t]) = Len(get_input_urls(p))
            /\ Len(get_output_urls(p)) = Len(get_input_urls(p))
            /\ \A j \in 1..Len(get_input_urls(p)) :
                /\ outcomes[t][j] \in RecoveredFailures
                    <=> get_output_urls(p)[j] = Placeholder
                /\ outcomes[t][j] = "ok"
                    <=> get_output_urls(p)[j] = uuid4(t, k[t], j)
    /\ \A t \in TaskIds :
        (/\ PastLoop(t)
         /\ Len(products[request_id[t]]) = 1
         /\ Product(request_id[t], 1).status = COMPLETED
         /\ get_output_urls(Product(request_id[t], 1)) = <<Placeholder>>)
        => requests[request_id[t]].status = COMPLETED

\* C3 witness: a product both of whose URLs failed, one at download and one
\* at compression, has been saved as completed.
C3_Witness ==
    \E t \in TaskIds :
        /\ pc[t] = "aggregate"
        /\ outcomes[t] = <<"download_failed", "compress_failed">>
        /\ Product(request_id[t], k[t]).status = COMPLETED
        /\ get_output_urls(Product(request_id[t], k[t]))
                = <<Placeholder, Placeholder>>

\* the task's last committed write is update_request_status's
JustAggregated(t) ==
    \/ pc[t] = "product" /\ k[t] > 1
    \/ pc[t] = "webhook" /\ Len(products[request_id[t]]) >= 1

\* C4, as claimed: in every committed state, the request's
\* processed_products is the number of its completed or failed products.
C4_CountMatchesFinishedAlways ==
    \A b \in RequestIds :
        requests[b].exists => requests[b].processed_products = FinishedCount(b)

\* C4, amended: in the committed state update_request_status leaves, until
\* the driver's next write, processed_products is the number of completed or
\* failed products.
C4_CountMatchesAfterAggregation ==
    \A t \in TaskIds :
        JustAggregated(t)
            => requests[request_id[t]].processed_products
                    = FinishedCount(request_id[t])

\* C4 witness: the first of two products has failed and been aggregated;
\* the driver is about to start the second.
C4_Witness ==
    \E t \in TaskIds :
        /\ pc[t] = "product" /\ k[t] = 2
        /\ Product(request_id[t], 1).status = FAILED
        /\ Product(request_id[t], 2).status = PENDING
        /\ requests[request_id[t]].processed_products = 1

\* C5: a request whose status is completed or failed has only completed or
\* failed products.
C5_TerminalRequestHasTerminalProducts ==
    \A b \in RequestIds :
        requests[b].status \in Finished
            => \A i \in ProductIds(b) : Product(b, i).status \in Finished

\* C6: a product's status only moves forward: never from completed or
\* failed to processing or pending, never from processing to pending.
C6_ProductStatusForwardOnly ==
    [][\A b \in RequestIds : \A i \in ProductIds(b) :
        /\ Product(b, i).status \in Finished
            => products'[b][i].status \notin {PENDING, PROCESSING}
        /\ Product(b, i).status = PROCESSING
            => products'[b][i].status # PENDING]_vars

\* C7: when a task is past the loop over the N >= 1 products of its request
\* and at least one of them is completed (the others failed), the request's
\* status is completed and processed_products is N.
C7_MixedOutcomeCompletes ==
    \A t \in TaskIds :
        LET b == request_id[t] IN
        (/\ PastLoop(t)
         /\ Len(products[b]) >= 1
         /\ \E i \in ProductIds(b) : Product(b, i).status = COMPLETED)
        => /\ \A i \in ProductIds(b) : Product(b, i).status \in Finished
           /\ requests[b].status = COMPLETED
           /\ requests[b].processed_products = Len(products[b])

\* C7 witness: past the loop, one product completed and one failed.
C7_Witness ==
    \E t \in TaskIds :
        LET b == request_id[t] IN
        /\ PastLoop(t)
        /\ Len(products[b]) = 2
        /\ Product(b, 1).status = FAILED
        /\ Product(b, 2).status = COMPLETED
        /\ requests[b].status = COMPLETED
        /\ requests[b].processed_products = 2

\* task t is the latest invocation on its request
LatestTask(t) ==
    \A u \in TaskIds : (u > t /\ pc[u] # "idle") => request_id[u] # request_id[t]

\* C8: when a task has gone through the loop over the N >= 1 products of
\* its request and all of them are failed, the request's status is failed,
\* processed_products is N, and the task has POSTed no webhook.
C8_AllFailedFails ==
    \A t \in TaskIds :
        LET b == request_id[t] IN
        (/\ \/ PastLoop(t)
            \/ Returned(t) /\ result[t].status = "success" /\ LatestTask(t)
         /\ Len(products[b]) >= 1
         /\ \A i \in ProductIds(b) : Product(b, i).status = FAILED)
        => /\ requests[b].status = FAILED
           /\ requests[b].processed_products = Len(products[b])
           /\ PostsBy(t, b) = {}

\* C8 witness: a task has returned success from a request both of whose
\* products failed.
C8_Witness ==
    \E t \in TaskIds :
        LET b == request_id[t] IN
        /\ Returned(t) /\ result[t].status = "success"
        /\ Len(products[b]) = 2
        /\ \A i \in ProductIds(b) : Product(b, i).status = FAILED
        /\ requests[b].status = FAILED
        /\ Len(posted[b]) = 0

\* C9: a task invoked on a request whose status is completed changes
\* nothing of it: at every step from the invocation to the return, the
\* request's row (status, processed_products) and every product's row
\* (status, output URLs) stay as they were.
C9_ReinvocationIdempotent ==
    [][\A t \in TaskIds :
        (Active(t) /\ found_status[t] = COMPLETED)
            => /\ requests'[request_id[t]] = requests[request_id[t]]
               /\ products'[request_id[t]] = products[request_id[t]]]_vars

\* C10: whenever a task returns, its request's status is completed or
\* failed.
C10_ReturnsWithTerminalStatus ==
    [][\A t \in TaskIds :
        (pc[t] # "done" /\ pc'[t] = "done")
            => requests'[request_id[t]].status \in Finished]_vars

\* the step is task t's return
Returns(t) == pc[t] # "done" /\ pc'[t] = "done"

\* C11: a task returns an error result exactly when it returns from its
\* except clause, which an exception of the loop, of the aggregation or of
\* the webhook step (or of the load before the loop) brought it to; the
\* request's status is then failed. Every other return is a success result
\* carrying the request id.
C11_ErrorIffDriverFault ==
    [][\A t \in TaskIds :
        Returns(t)
            => /\ result'[t].request_id = request_id[t]
               /\ result'[t].status \in {"success", "error"}
               /\ result'[t].status = "error" <=> pc[t] = "except"
               /\ result'[t].status = "error"
                    => requests'[request_id[t]].status = FAILED]_vars

\* C11 witness: a task has returned an error from a request it left failed,
\* and another has returned success.
C11_Witness ==
    \E t, u \in TaskIds :
        /\ Returned(t) /\ result[t] = Error(request_id[t])
        /\ Returned(u) /\ result[u] = Success(request_id[u])
        /\ LatestTask(t)
        /\ requests[request_id[t]].status = FAILED

\* C12: a failed webhook POST goes no further: at the step that takes the
\* failure the request is completed with webhook_triggered 0 and stays so,
\* no product changes, and the task returns success.
C12_WebhookFailureSwallowed ==
    [][\A t \in TaskIds :
        (pc[t] = "posting" /\ response'[t] = "failed")
            => /\ requests[request_id[t]].status = COMPLETED
               /\ requests[request_id[t]].webhook_triggered = 0
               /\ requests' = requests
               /\ products' = products
               /\ Returns(t)
               /\ result'[t] = Success(request_id[t])]_vars

\* C12 witness: a task whose POST failed has returned success; the request
\* is completed and not marked as notified.
C12_Witness ==
    \E t \in TaskIds :
        /\ Returned(t) /\ response[t] = "failed"
        /\ result[t] = Success(request_id[t])
        /\ PostsBy(t, request_id[t]) # {}
        /\ requests[request_id[t]].status = COMPLETED
        /\ requests[request_id[t]].webhook_triggered = 0

\* the row before the first call on its own, and the rows the calls left
RowBefore(b) == aggregations[b][1]
RowAfter(b, n) == aggregations[b][n + 1]
Calls(b) == IF aggregations[b] = <<>> THEN 0 ELSE Len(aggregations[b]) - 1

\* C13: update_request_status called twice in a row on unchanged product
\* statuses leaves, after the second call, the status and processed count
\* the first call left, whatever the statuses of the products.
C13_AggregationIdempotent ==
    \A b \in RequestIds : \A n \in 1..MaxAggregations + 1 :
        (n >= 2 /\ n <= Calls(b))
            => /\ RowAfter(b, n).status = RowAfter(b, n - 1).status
               /\ RowAfter(b, n).processed_products
                    = RowAfter(b, n - 1).processed_products
               /\ requests[b] = RowAfter(b, Calls(b))

\* C13 witness: two calls in a row on a request that was processing with a
\* stale count, one product failed and the other still pending.
C13_Witness ==
    \E b \in RequestIds :
        /\ Calls(b) = 2
        /\ Len(products[b]) = 2
        /\ Product(b, 1).status = FAILED /\ Product(b, 2).status = PENDING
        /\ RowBefore(b).status = PROCESSING
        /\ RowBefore(b).processed_products = 0
        /\ requests[b].status = PROCESSING
        /\ requests[b].processed_products = 1

\* C14: whenever generate_output_csv writes a file for a request, every
\* row has as many output entries as input entries, and the output entry at
\* position j is empty or the URL generated for input j.
C14_ManifestRowsAligned ==
    \A b \in RequestIds :
        LET csv == generate_output_csv(requests[b], products[b]) IN
        csv.generated
            => \A i \in 1..Len(csv.rows) :
                /\ Len(csv.rows[i].output) = Len(csv.rows[i].input)
                /\ \A j \in 1..Len(csv.rows[i].output) :
                    csv.rows[i].output[j] # Placeholder
                        => UrlPosition(csv.rows[i].output[j]) = j

\* the aggregation rule as stated, for a processed count, a count of
\* completed products and a total
RuleHolds(processed, completed, total, old, new) ==
    /\ (processed = total /\ completed >= 1) => new = COMPLETED
    /\ (processed = total /\ completed = 0) => new = FAILED
    /\ (0 < processed /\ processed < total) => new = PROCESSING
    /\ processed = 0 => new = old

\* C15, as claimed: for every assignment of statuses to the products of a
\* request, zero products included, update_request_status sets
\* processed_products to the number of completed or failed products and
\* the status by the rule.
C15_AggregationRuleAlways ==
    \A b \in RequestIds :
        Calls(b) >= 1
            => /\ RowAfter(b, 1).processed_products = FinishedCount(b)
               /\ RuleHolds(FinishedCount(b),
                            CountStatus(products[b], COMPLETED),
                            Len(products[b]),
                            RowBefore(b).status, RowAfter(b, 1).status)

\* C15, amended: the same for every request with at least one product; for
\* a request with no product the count is 0 and the status is set to
\* completed.
C15_AggregationRule ==
    \A b \in RequestIds :
        Calls(b) >= 1
            => /\ RowAfter(b, 1).processed_products = FinishedCount(b)
               /\ Len(products[b]) >= 1
                    => RuleHolds(FinishedCount(b),
                                 CountStatus(products[b], COMPLETED),
                                 Len(products[b]),
                                 RowBefore(b).status, RowAfter(b, 1).status)
               /\ Len(products[b]) = 0 => RowAfter(b, 1).status = COMPLETED

\* C15 witness: one call on a processing request with a stale count whose
\* two products are failed and completed: it is completed with a count of 2.
C15_Witness ==
    \E b \in RequestIds :
        /\ Calls(b) = 1
        /\ Len(products[b]) = 2
        /\ Product(b, 1).status = FAILED /\ Product(b, 2).status = COMPLETED
        /\ RowBefore(b).status = PROCESSING
        /\ RowBefore(b).processed_products = 1
        /\ requests[b].status = COMPLETED
        /\ requests[b].processed_products = 2

\* task t raises out of _process_images' try block in this step
Raises(t) == pc[t] \in FaultPoints /\ pc'[t] = "except"
\* task t runs _process_images' except clause in this step
Handles(t) == pc[t] = "except" /\ pc'[t] = "done"

\* C16: an exception raised inside process_product_images (the file write
\* failing) is caught by its except clause: that clause's commit sets the
\* product to failed, leaves the request row alone and hands control to the
\* aggregation of that product; control reaches _process_images' except
\* clause from there only when that commit itself raises, with nothing
\* written. A task that is past the loop has brought every product to
\* completed or failed, and a request with a failed and a completed product
\* is then completed, not failed.
C16_ItemExceptionContained ==
    /\ [][\A t \in TaskIds :
            pc[t] = "product_except" /\ pc'[t] # "product_except" =>
                LET b == request_id[t] IN
                \/ /\ pc'[t] = "aggregate"
                   /\ products'[b][k[t]].status = FAILED
                   /\ \A i \in ProductIds(b) :
                        i # k[t] => products'[b][i] = products[b][i]
                   /\ requests' = requests
                \/ /\ Raises(t)
                   /\ products' = products
                   /\ requests' = requests]_vars
    /\ [](\A t \in TaskIds :
            PastLoop(t) =>
                LET b == request_id[t] IN
                /\ \A i \in ProductIds(b) : Product(b, i).status \in Finished
                /\ (\E i \in ProductIds(b) : Product(b, i).status = COMPLETED)
                        => requests[b].status = COMPLETED)

\* C16 witness: the first product of two failed at the file write, the
\* second was processed after it and completed, and the task is at the
\* webhook step with the request completed.
C16_Witness ==
    \E t \in TaskIds :
        LET b == request_id[t] IN
        /\ pc[t] = "webhook"
        /\ found_status[t] = PENDING
        /\ Len(products[b]) = 2
        /\ Product(b, 1).status = FAILED
        /\ Product(b, 2).status = COMPLETED
        /\ requests[b].status = COMPLETED
        /\ requests[b].processed_products = 2

C18_FaultTouchesStatusOnly ==
    /\ [][\A t \in TaskIds :
            LET b == request_id[t] IN
            /\ Raises(t) =>
                /\ requests' = requests
                /\ products' = products
                /\ posted' = posted
            /\ Handles(t) =>
                /\ requests' = [requests EXCEPT ![b].status = FAILED]
                /\ products' = products
                /\ posted' = posted
            /\ pc[t] = "done" => pc'[t] = "done"]_vars
    /\ [](\A t \in TaskIds :
            (pc[t] = "except" \/ (Returned(t) /\ result[t].status = "error"))
                => PostsBy(t, request_id[t]) = {})

\* C18 witness: a first run returned the error between its two products:
\* the first is completed with its output, the second was never started,
\* and no webhook was POSTed.
C18_Witness ==
    \E t \in TaskIds :
        LET b == request_id[t] IN
        /\ Returned(t)
        /\ result[t] = Error(b)
        /\ found_status[t] = PENDING
        /\ requests[b].status = FAILED
        /\ Len(products[b]) = 2
        /\ Product(b, 1).status = COMPLETED
        /\ get_output_urls(Product(b, 1)) # <<>>
        /\ Product(b, 2).status = PENDING
        /\ get_output_urls(Product(b, 2)) = <<>>
        /\ posted[b] = <<>>

\* the three conditions under which the claim allows a POST for request b
MayNotify(b) ==
    /\ requests[b].status = COMPLETED
    /\ requests[b].webhook_triggered = 0
    /\ (requests[b].webhook_url # NoUrl \/ WEBHOOK_URL # NoUrl)

\* C19: a webhook is POSTed for a request only by a step taken in a state
\* where the request is completed, its webhook_triggered is 0 and the
\* request's own URL or else WEBHOOK_URL is set; a task that leaves
\* trigger_webhook_if_needed's entry in any other state (the request failed,
\* pending or processing, already notified, or neither URL set) POSTs
\* nothing and leaves webhook_triggered as it was; and webhook_triggered
\* changes only by the step of a task that has POSTed.
C19_NotifyOnlyWhenDue ==
    [][/\ \A b \in RequestIds :
            /\ posted'[b] # posted[b] =>
                /\ MayNotify(b)
                /\ Len(posted'[b]) = Len(posted[b]) + 1
            /\ requests'[b].webhook_triggered # requests[b].webhook_triggered =>
                \E t \in TaskIds :
                    /\ pc[t] = "posting" /\ request_id[t] = b
                    /\ PostsBy(t, b) # {}
       /\ \A t \in TaskIds :
            (pc[t] = "webhook" /\ pc'[t] # "webhook"
                    /\ ~MayNotify(request_id[t])) =>
                /\ posted' = posted
                /\ requests' = requests
                /\ pc'[t] \in {"done", "except"}]_vars

\* C19 witness: a request uploaded without a webhook URL was notified at
\* the configured WEBHOOK_URL, and the POST carried the completed status.
C19_Witness ==
    \E b \in RequestIds :
        /\ requests[b].exists
        /\ requests[b].webhook_url = NoUrl
        /\ WEBHOOK_URL # NoUrl
        /\ Len(posted[b]) = 1
        /\ posted[b][1].status = COMPLETED
        /\ requests[b].webhook_triggered = 1

\* the task is inside the loop of _process_images
InLoop(t) == pc[t] \in {"product", "images", "save", "product_except", "aggregate"}
\* the products of request b whose status is processing
InProcessing(b) == {i \in ProductIds(b) : Product(b, i).status = PROCESSING}

\* C20: a run takes the products one at a time in serial order: the step
\* that sets product k to processing finds every product before k completed
\* or failed and, for k > 1, processed_products equal to the number of
\* completed or failed products (the aggregation of product k - 1 is
\* committed); the loop index only moves by one, at the aggregation step; a
\* webhook is POSTed only from the step after the loop, with every product
\* completed or failed and counted; and at every moment at most one product
\* of the request has status processing.
C20_OneItemAtATime ==
    /\ [][\A t \in TaskIds :
            LET b == request_id[t] IN
            /\ (pc[t] = "product" /\ pc'[t] = "images") =>
                /\ products'[b][k[t]].status = PROCESSING
                /\ \A i \in ProductIds(b) :
                    /\ i < k[t] => Product(b, i).status \in Finished
                    /\ i # k[t] => products'[b][i] = products[b][i]
                /\ k[t] > 1 =>
                    requests[b].processed_products = FinishedCount(b)
            /\ (InLoop(t) /\ k'[t] # k[t]) =>
                /\ pc[t] = "aggregate"
                /\ k'[t] = k[t] + 1
            /\ (pc[t] # "idle" /\ PostsBy(t, b)' # PostsBy(t, b)) =>
                /\ pc[t] = "webhook"
                /\ \A i \in ProductIds(b) : Product(b, i).status \in Finished
                /\ requests[b].processed_products = Len(products[b])]_vars
    /\ [](\A b \in RequestIds : Cardinality(InProcessing(b)) <= 1)

\* the place of a status in pending < processing < {completed, failed}
Rank(s) == IF s = PENDING THEN 0 ELSE IF s = PROCESSING THEN 1 ELSE 2

\* C21: from one committed state to the next, in a first run or a later
\* one, a request's status never goes back in the order pending <
\* processing < {completed, failed} and its processed_products never
\* decreases.
C21_StatusAndCountMonotone ==
    [][\A b \in RequestIds :
        requests[b].exists =>
            /\ Rank(requests'[b].status) >= Rank(requests[b].status)
            /\ requests'[b].processed_products
                    >= requests[b].processed_products]_vars

\* the products of request b with status s
Having(b, s) == {i \in 1..Len(products[b]) : products[b][i].status = s}
\* task u took a step
Moved(u) ==
    <<pc[u], k[u], output_urls[u], outcomes[u], result[u], response[u]>>'
        # <<pc[u], k[u], output_urls[u], outcomes[u], result[u], response[u]>>
\* what a run on its own leaves of request b when task t returns success:
\* every product completed or failed and counted, the status the aggregate
\* rule gives (processing when there is no product), one POST at most, made
\* by t when the request is completed and a URL is set, and
\* webhook_triggered set exactly when that POST was answered 2xx
EndsAsAlone(t, b) ==
    LET n == Len(products[b]) IN
    /\ requests[b].total_products = n
    /\ requests[b].processed_products = n
    /\ \A i \in 1..n :
        /\ products[b][i].status \in Finished
        /\ products[b][i].status = COMPLETED =>
            /\ Len(get_output_urls(products[b][i]))
                    = Len(get_input_urls(products[b][i]))
            /\ \A j \in 1..Len(get_output_urls(products[b][i])) :
                    get_output_urls(products[b][i])[j]
                        \in {Placeholder, uuid4(t, i, j)}
    /\ requests[b].status =
            IF n = 0 THEN PROCESSING
            ELSE IF Having(b, COMPLETED) # {} THEN COMPLETED ELSE FAILED
    /\ Len(posted[b]) =
            IF requests[b].status = COMPLETED
                    /\ EffectiveUrl(requests[b], WEBHOOK_URL) # NoUrl
            THEN 1 ELSE 0
    /\ \A m \in 1..Len(posted[b]) :
            posted[b][m] = WebhookPayload(t, b,
                                [requests[b] EXCEPT !.webhook_triggered = 0])
    /\ requests[b].webhook_triggered = (IF response[t] = "2xx" THEN 1 ELSE 0)

\* C22: with one run on each of two requests, under every interleaving, a
\* step that changes a row of request b, a product of b or the POSTs of b
\* is never a step of the task running on the other request; and when the
\* task on b has returned success, b and its products are as a run on its
\* own leaves them, and when it has returned an error b is failed and
\* nothing was POSTed for it.
C22_RequestsIndependent ==
    /\ [][\A b \in PairIds : \A u \in TaskIds :
            (/\ <<requests[b], products[b], posted[b]>>'
                    # <<requests[b], products[b], posted[b]>>
             /\ pc[u] # "idle" /\ request_id[u] # b)
                => ~Moved(u)]_vars
    /\ [](\A t \in TaskIds :
            Returned(t) =>
                LET b == request_id[t] IN
                /\ result[t].status = "success" => EndsAsAlone(t, b)
                /\ result[t].status = "error" =>
                    /\ requests[b].status = FAILED
                    /\ requests[b].webhook_triggered = 0
                    /\ posted[b] = <<>>)

\* C22 witness: the run on request 2 went from start to end while the run
\* on request 1 was between its two products: request 2 is failed with its
\* one failed product counted, request 1 is processing with a completed
\* product.
C22_Witness ==
    /\ pc[1] = "product" /\ k[1] = 2 /\ request_id[1] = 1
    /\ requests[1].status = PROCESSING
    /\ products[1][1].status = COMPLETED
    /\ Returned(2) /\ request_id[2] = 2
    /\ result[2] = Success(2)
    /\ requests[2].status = FAILED
    /\ requests[2].processed_products = 1
    /\ products[2][1].status = FAILED

\* the positions of a task inside process_product_images, and inside
\* trigger_webhook_if_needed
InProcessor(t) == pc[t] \in {"product", "images", "save", "product_except"}
InNotifier(t) == pc[t] \in {"webhook", "posting"}

\* C23: a step a task takes inside process_product_images changes nothing
\* but the status and the output list of the product in hand; its
\* update_request_status step changes nothing but the request's status and
\* processed_products; a step inside trigger_webhook_if_needed changes no
\* row but the request's webhook_triggered; and no step at all changes an
\* existing request's total_products or webhook_url, the number of its
\* products or a product's input URLs.
C23_WritersKeepToTheirFields ==
    [][/\ \A t \in TaskIds :
            (Active(t) /\ Moved(t)) =>
                LET b == request_id[t] IN
                /\ InProcessor(t) =>
                    /\ requests' = requests
                    /\ posted' = posted
                    /\ \A a \in RequestIds : \A i \in 1..Len(products[a]) :
                        IF a = b /\ i = k[t]
                        THEN products'[a][i] = [products[a][i] EXCEPT
                                !.status = products'[a][i].status,
                                !.output_image_urls =
                                    products'[a][i].output_image_urls]
                        ELSE products'[a][i] = products[a][i]
                /\ pc[t] = "aggregate" =>
                    /\ products' = products
                    /\ posted' = posted
                    /\ requests' = [requests EXCEPT
                            ![b].status = requests'[b].status,
                            ![b].processed_products =
                                requests'[b].processed_products]
                /\ InNotifier(t) =>
                    /\ products' = products
                    /\ requests' = [requests EXCEPT
                            ![b].webhook_triggered =
                                requests'[b].webhook_triggered]
       /\ \A b \in RequestIds :
            requests[b].exists =>
                /\ requests'[b].exists
                /\ requests'[b].total_products = requests[b].total_products
                /\ requests'[b].webhook_url = requests[b].webhook_url
                /\ Len(products'[b]) = Len(products[b])
                /\ \A i \in 1..Len(products[b]) :
                        get_input_urls(products'[b][i])
                            = get_input_urls(products[b][i])]_vars

\* C23 witness: a run went through the three writers: a product with two
\* input URLs is completed with two outputs, the request is completed with
\* its count and marked as notified, and it still has the callback URL it
\* was uploaded with.
C23_Witness ==
    \E t \in TaskIds :
        LET b == request_id[t] IN
        /\ Returned(t) /\ response[t] = "2xx"
        /\ requests[b].status = COMPLETED
        /\ requests[b].total_products = 2
        /\ requests[b].processed_products = 2
        /\ requests[b].webhook_triggered = 1
        /\ requests[b].webhook_url # NoUrl
        /\ Product(b, 1).status = COMPLETED
        /\ Len(get_input_urls(Product(b, 1))) = 2
        /\ Len(get_output_urls(Product(b, 1))) = 2
        /\ Product(b, 2).status = FAILED

\* C24: every webhook payload POSTed reports the status completed, a
\* processed_products equal to its total_products, at least one product and
\* a completion percentage of 100; none reports failed or a partial count.
C24_PayloadReportsCompletion ==
    \A b \in RequestIds : \A m \in 1..Len(posted[b]) :
        /\ posted[b][m].request_id = b
        /\ posted[b][m].status = COMPLETED
        /\ posted[b][m].total_products >= 1
        /\ posted[b][m].processed_products = posted[b][m].total_products
        /\ posted[b][m].completion_percentage = 100

\* C24 witness: a payload was POSTed for a request of two products of which
\* one failed and one completed.
C24_Witness ==
    \E b \in RequestIds :
        /\ Len(posted[b]) >= 1
        /\ posted[b][1].total_products = 2
        /\ Product(b, 1).status = FAILED
        /\ Product(b, 2).status = COMPLETED
        /\ requests[b].status = COMPLETED

\* the tasks on request b whose webhook POST was answered 2xx (each of them
\* wrote webhook_triggered = 1 in the same step)
Delivered(b) == {t \in TaskIds : request_id[t] = b /\ response[t] = "2xx"}

\* C25: with invocations of the task running concurrently on one request,
\* under every interleaving at most one webhook POST for the request is
\* answered 2xx, and so webhook_triggered is written at most once.
C25_OneDeliveryUnderRedelivery ==
    \A b \in RequestIds : Cardinality(Delivered(b)) <= 1

====
